---- MODULE Spec2Model ----
(***************************************************************************)
(* mastodon_exporter: the Prometheus collector of src/main.go.             *)
(*                                                                         *)
(* One exporter object (mastodonExporter) is registered once; every        *)
(* collection request calls Collect on it, which runs scrape: one query    *)
(* per metric family, the family's samples sent on the requester's channel *)
(* on success, a scrape-local numErrors incremented on failure, and at the *)
(* end errors.Set(numErrors) followed by the send of the errors gauge.     *)
(* The requester drains its channel and calls Write on every metric it     *)
(* receives: a const metric carries its value, the errors gauge is the     *)
(* exporter's one Gauge object and yields the value it holds when it is    *)
(* written.                                                                *)
(***************************************************************************)
EXTENDS Integers, Sequences, FiniteSets, TLC

VARIABLES
    families,   \* the families this build of scrape queries, in order
    store,      \* the reports table: a sequence of report rows
    errors,     \* m.errors: the exporter's one Gauge, shared by all scrapes
    pc,         \* pc[s]: where scrape s stands
    numErrors,  \* numErrors[s]: the local tally of scrape s
    pending,    \* pending[s]: samples built by the current family, not yet sent
    ch,         \* ch[s]: the requester's channel, samples sent and not yet read
    out,        \* out[s]: what the requester of s has read and written out
    dbres,      \* dbres[s][f]: what the store answered to the query of family f
    cancelled,  \* cancelled[s]: the requester of s has signalled timeout/cancel
    got,        \* got[s][f]: the table the query of f read and the rows it returned
    queries     \* queries[s][f]: how many times scrape s has issued the query of f

vars == <<families, store, errors, pc, numErrors, pending, ch, out, dbres, cancelled,
          got, queries>>

----------------------------------------------------------------------------
(* Bounds of the model *)

\* Reports in the table, in the specifications that run two scrapes.
MaxReports == 2
\* Reports in the table, in the specification of the bucketing (one scrape).
MaxObs == 3
\* Capacity of the requester's channel: a send blocks while it is full.
ChanCap == 2

\* The Collect calls the model follows.
Scrapes == {"s1", "s2"}

\* Resolution times (seconds) a resolved report may carry: below, at and just
\* above a boundary, between boundaries, above every boundary.
Observations == {0, 45, 60, 61, 500, 3700, 604801}
SmallObservations == {45}

----------------------------------------------------------------------------
(* The program's constants and static identities *)

resolutionTimeBuckets ==
    <<60, 600, 1800, 3600, 14400, 28800, 86400, 172800, 604800>>

FamiliesV2 == <<"reports", "resolved">>
FamiliesV4 == <<"reports", "resolved", "accounts", "posts">>
AllFamilies == {"reports", "resolved", "accounts", "posts"}

\* The Desc each family's samples carry.
DescOf(f) ==
    CASE f = "reports" -> "num_reports"
      [] f = "resolved" -> "resolved_time_seconds"
      [] f = "accounts" -> "num_accounts"
      [] f = "posts" -> "num_posts"

Range(seq) == {seq[i] : i \in DOMAIN seq}

\* A variant of Describe that leaves out the gauge's own Describe call.
DescribeNoErrors(fams) ==
    IF fams = FamiliesV4
    THEN <<"num_accounts", "num_posts", "num_reports", "resolved_time_seconds">>
    ELSE <<"num_reports", "resolved_time_seconds">>

\* Describe: the descs sent on the channel, in order.  They are fields set
\* at construction and never assigned again; the last is the errors gauge's.
Describe(fams) ==
    IF fams = FamiliesV4
    THEN <<"num_accounts", "num_posts", "num_reports", "resolved_time_seconds",
           "errors">>
    ELSE <<"num_reports", "resolved_time_seconds", "errors">>

\* Where scrape goes once family f is dealt with.
PcOf(f) ==
    CASE f = "reports" -> "getNumReports"
      [] f = "resolved" -> "getResolvedStats"
      [] f = "accounts" -> "getNumAccounts"
      [] f = "posts" -> "getNumPosts"

NextPc(f) ==
    LET i == CHOOSE k \in DOMAIN families : families[k] = f
    IN  IF i < Len(families) THEN PcOf(families[i + 1]) ELSE "setErrors"

----------------------------------------------------------------------------
(* The store *)

OpenReport == [resolved |-> FALSE, secs |-> 0]
ResolvedReport(d) == [resolved |-> TRUE, secs |-> d]

RECURSIVE SeqsUpTo(_, _)
SeqsUpTo(S, n) ==
    IF n = 0 THEN {<<>>}
    ELSE LET shorter == SeqsUpTo(S, n - 1)
         IN  shorter \cup {Append(q, x) : q \in {p \in shorter : Len(p) = n - 1}, x \in S}

Stores(obs, n) == SeqsUpTo({OpenReport} \cup {ResolvedReport(d) : d \in obs}, n)

RECURSIVE SelectSecs(_, _)
SelectSecs(rows, i) ==
    IF i > Len(rows) THEN <<>>
    ELSE IF rows[i].resolved THEN <<rows[i].secs>> \o SelectSecs(rows, i + 1)
         ELSE SelectSecs(rows, i + 1)

\* SELECT extract(EPOCH FROM (action_taken_at - created_at)) FROM reports
\* WHERE action_taken_at IS NOT NULL
ResolvedTimes(rows) == SelectSecs(rows, 1)

\* A variant of the first count without its FILTER: every row is counted.
CountResolvedAll(rows) == Len(rows)

\* SELECT COUNT(*) FILTER (WHERE action_taken_at IS NOT NULL),
\*        COUNT(*) FILTER (WHERE action_taken_at IS NULL) FROM reports
CountResolved(rows) == Cardinality({i \in DOMAIN rows : rows[i].resolved})
CountUnresolved(rows) == Cardinality({i \in DOMAIN rows : ~rows[i].resolved})

\* What the accounts and posts queries of the four-family build may return.
AccountRows == {<<0, 0, 0, 0, 0>>, <<101, 1, 0, 100, 1>>}
PostCounts == {0, 1938}

----------------------------------------------------------------------------
(* Metrics *)

\* prometheus.MustNewConstMetric(desc, GaugeValue, v, label)
ConstMetric(desc, v, label) ==
    [desc |-> desc, kind |-> "const", label |-> label, val |-> v]

\* buckets[bucket]++ on a Go map: a missing key reads as 0 and is created.
IncBucket(buckets, b) ==
    IF b \in DOMAIN buckets THEN [buckets EXCEPT ![b] = @ + 1]
    ELSE buckets @@ (b :> 1)

\* Variant: an observation equal to a boundary falls outside its bucket.
RECURSIVE BucketLoopStrict(_, _, _)
BucketLoopStrict(buckets, num, i) ==
    IF i > Len(resolutionTimeBuckets) THEN buckets
    ELSE BucketLoopStrict(IF num < resolutionTimeBuckets[i]
                          THEN IncBucket(buckets, resolutionTimeBuckets[i])
                          ELSE buckets,
                          num, i + 1)

\* Variant: exclusive binning, the loop stops at the first boundary that fits.
RECURSIVE BucketLoopExclusive(_, _, _)
BucketLoopExclusive(buckets, num, i) ==
    IF i > Len(resolutionTimeBuckets) THEN buckets
    ELSE IF num <= resolutionTimeBuckets[i]
         THEN IncBucket(buckets, resolutionTimeBuckets[i])
         ELSE BucketLoopExclusive(buckets, num, i + 1)

RECURSIVE BucketLoop(_, _, _)
BucketLoop(buckets, num, i) ==
    IF i > Len(resolutionTimeBuckets) THEN buckets
    ELSE BucketLoop(IF num <= resolutionTimeBuckets[i]
                    THEN IncBucket(buckets, resolutionTimeBuckets[i])
                    ELSE buckets,
                    num, i + 1)

RECURSIVE NumLoop(_, _, _)
NumLoop(acc, numbers, i) ==
    IF i > Len(numbers) THEN acc
    ELSE NumLoop([sum |-> acc.sum + numbers[i],
                  buckets |-> BucketLoop(acc.buckets, numbers[i], 1)],
                 numbers, i + 1)

\* The histogram value: MustNewConstHistogram(desc, count, sum, buckets).
resolvedMetricFromNums(numbers) ==
    LET acc == NumLoop([sum |-> 0, buckets |-> [b \in {} |-> 0]], numbers, 1)
    IN  [count |-> Len(numbers), sum |-> acc.sum, buckets |-> acc.buckets]

HistMetric(numbers) ==
    ConstMetric("resolved_time_seconds", resolvedMetricFromNums(numbers), "")

\* ch <- m.errors sends the Gauge object itself, not a copy of its value.
ErrorsGauge == [desc |-> "errors", kind |-> "live", label |-> ""]

\* Metric.Write, called by the requester on each metric it reads.
Write(m) ==
    [desc |-> m.desc, label |-> m.label,
     val |-> IF m.kind = "live" THEN errors ELSE m.val]

----------------------------------------------------------------------------
(* Initial states *)

\* Before a query is issued: nothing read, nothing returned.
NoResult == [table |-> <<>>, rows |-> <<>>]

InitScrapes ==
    /\ errors = 0
    /\ pc = [s \in Scrapes |-> "idle"]
    /\ numErrors = [s \in Scrapes |-> 0]
    /\ pending = [s \in Scrapes |-> <<>>]
    /\ ch = [s \in Scrapes |-> <<>>]
    /\ out = [s \in Scrapes |-> <<>>]
    /\ dbres = [s \in Scrapes |-> [f \in AllFamilies |-> "none"]]
    /\ cancelled = [s \in Scrapes |-> FALSE]
    /\ got = [s \in Scrapes |-> [f \in AllFamilies |-> NoResult]]
    /\ queries = [s \in Scrapes |-> [f \in AllFamilies |-> 0]]

Init ==
    /\ families = FamiliesV2
    /\ store \in Stores(SmallObservations, MaxReports)
    /\ InitScrapes

InitHist ==
    /\ families = FamiliesV2
    /\ store \in Stores(Observations, MaxObs)
    /\ InitScrapes

InitBuilds ==
    /\ families \in {FamiliesV2, FamiliesV4}
    /\ store \in Stores(SmallObservations, MaxReports)
    /\ InitScrapes

----------------------------------------------------------------------------
(* scrape *)

Active(s) == pc[s] \notin {"idle", "done"}

\* Variant: the errors gauge is sent when the scrape starts.
CollectGaugeFirst(s) ==
    /\ pc[s] = "idle"
    /\ Len(ch[s]) < ChanCap
    /\ ch' = [ch EXCEPT ![s] = Append(@, ErrorsGauge)]
    /\ pc' = [pc EXCEPT ![s] = PcOf(families[1])]
    /\ numErrors' = [numErrors EXCEPT ![s] = 0]
    /\ UNCHANGED <<families, store, errors, pending, out, dbres, cancelled, got, queries>>

\* Collect: m.scrape(context.Background(), ch); var numErrors int
Collect(s) ==
    /\ pc[s] = "idle"
    /\ pc' = [pc EXCEPT ![s] = PcOf(families[1])]
    /\ numErrors' = [numErrors EXCEPT ![s] = 0]
    /\ UNCHANGED <<families, store, errors, pending, ch, out, dbres, cancelled, got, queries>>

\* The query of family f as the store sees it: issued once more, against the
\* table as it stands, returning these rows (none when the query itself fails).
Asked(s, f, res, rows) ==
    /\ queries' = [queries EXCEPT ![s][f] = @ + 1]
    /\ got' = [got EXCEPT ![s][f] =
                  [table |-> store, rows |-> IF res = "queryErr" THEN <<>> ELSE rows]]

\* Variant: a row that cannot be decoded drops the family without counting it.
FamilyStepQueryErrOnly(s, f, res, samples) ==
    /\ pc[s] = PcOf(f)
    /\ pending[s] = <<>>
    /\ dbres' = [dbres EXCEPT ![s][f] = res]
    /\ numErrors' = [numErrors EXCEPT ![s] = IF res = "queryErr" THEN @ + 1 ELSE @]
    /\ pending' = [pending EXCEPT ![s] = IF res = "ok" THEN samples ELSE <<>>]
    /\ pc' = [pc EXCEPT ![s] = NextPc(f)]
    /\ UNCHANGED <<families, store, errors, ch, out, cancelled>>

\* Variant: a failed query returns from scrape at once.
FamilyStepAbort(s, f, res, samples) ==
    /\ pc[s] = PcOf(f)
    /\ pending[s] = <<>>
    /\ dbres' = [dbres EXCEPT ![s][f] = res]
    /\ numErrors' = [numErrors EXCEPT ![s] = IF res = "ok" THEN @ ELSE @ + 1]
    /\ pending' = [pending EXCEPT ![s] = IF res = "ok" THEN samples ELSE <<>>]
    /\ pc' = [pc EXCEPT ![s] = IF res = "ok" THEN NextPc(f) ELSE "done"]
    /\ UNCHANGED <<families, store, errors, ch, out, cancelled>>

\* Variant: a family's samples are sent only while the tally is still zero.
FamilyStepTallyGate(s, f, res, samples) ==
    /\ pc[s] = PcOf(f)
    /\ pending[s] = <<>>
    /\ dbres' = [dbres EXCEPT ![s][f] = res]
    /\ numErrors' = [numErrors EXCEPT ![s] = IF res = "ok" THEN @ ELSE @ + 1]
    /\ pending' = [pending EXCEPT ![s] =
                      IF res = "ok" /\ numErrors[s] = 0 THEN samples ELSE <<>>]
    /\ pc' = [pc EXCEPT ![s] = NextPc(f)]
    /\ UNCHANGED <<families, store, errors, ch, out, cancelled>>

\* One family's query and the if err != nil { numErrors++ } else { send } after it.
FamilyStep(s, f, res, samples) ==
    /\ pc[s] = PcOf(f)
    /\ pending[s] = <<>>
    /\ dbres' = [dbres EXCEPT ![s][f] = res]
    /\ IF res # "ok"
       THEN /\ numErrors' = [numErrors EXCEPT ![s] = @ + 1]
            /\ pending' = pending
       ELSE /\ numErrors' = numErrors
            /\ pending' = [pending EXCEPT ![s] = samples]
    /\ pc' = [pc EXCEPT ![s] = NextPc(f)]
    /\ UNCHANGED <<families, store, errors, ch, out, cancelled>>

\* Variant: a failed report-count query is issued a second time.
GetNumReportsRetry(s) ==
    \E first \in {"ok", "queryErr"}, res \in {"ok", "queryErr"} :
        /\ first = "ok" => res = "ok"
        /\ FamilyStep(s, "reports", res,
                      <<ConstMetric("num_reports", CountResolved(store), "true"),
                        ConstMetric("num_reports", CountUnresolved(store), "false")>>)
        /\ queries' = [queries EXCEPT ![s]["reports"] = IF first = "ok" THEN 1 ELSE 2]
        /\ got' = [got EXCEPT ![s]["reports"] =
                      [table |-> store,
                       rows |-> IF res = "queryErr" THEN <<>>
                                ELSE <<CountResolved(store), CountUnresolved(store)>>]]

\* Variant: the two num_reports samples carry each other's label.
GetNumReportsSwapped(s) ==
    \E res \in {"ok", "queryErr"} :
        /\ FamilyStep(s, "reports", res,
                      <<ConstMetric("num_reports", CountResolved(store), "false"),
                        ConstMetric("num_reports", CountUnresolved(store), "true")>>)
        /\ Asked(s, "reports", res, <<CountResolved(store), CountUnresolved(store)>>)

GetNumReports(s) ==
    \E res \in {"ok", "queryErr"} :
        /\ FamilyStep(s, "reports", res,
                      <<ConstMetric("num_reports", CountResolved(store), "true"),
                        ConstMetric("num_reports", CountUnresolved(store), "false")>>)
        /\ Asked(s, "reports", res, <<CountResolved(store), CountUnresolved(store)>>)

\* pgx.CollectRows: every row on success; when a row cannot be decoded, the
\* rows decoded before it (and the error).
CollectRows(res, times) ==
    IF res = "scanErr"
    THEN {SubSeq(times, 1, k) : k \in 0..(IF times = <<>> THEN 0 ELSE Len(times) - 1)}
    ELSE {times}

\* Variant: a row that cannot be decoded is counted, and the rows are sent all the same.
GetResolvedStatsPartial(s) ==
    \E res \in {"ok", "queryErr", "scanErr"} :
        /\ pc[s] = "getResolvedStats"
        /\ pending[s] = <<>>
        /\ dbres' = [dbres EXCEPT ![s]["resolved"] = res]
        /\ numErrors' = [numErrors EXCEPT ![s] = IF res = "ok" THEN @ ELSE @ + 1]
        /\ pending' = [pending EXCEPT ![s] =
                          IF res = "queryErr" THEN <<>> ELSE <<HistMetric(ResolvedTimes(store))>>]
        /\ pc' = [pc EXCEPT ![s] = NextPc("resolved")]
        /\ Asked(s, "resolved", res, ResolvedTimes(store))
        /\ UNCHANGED <<families, store, errors, ch, out, cancelled>>

\* Variant: an empty result is taken for a failure (as QueryRow's ErrNoRows is).
GetResolvedStatsNoRows(s) ==
    \E res \in {"ok", "queryErr", "scanErr"} :
        /\ pc[s] = "getResolvedStats"
        /\ pending[s] = <<>>
        /\ dbres' = [dbres EXCEPT ![s]["resolved"] = res]
        /\ LET failed == res # "ok" \/ ResolvedTimes(store) = <<>>
           IN  /\ numErrors' = [numErrors EXCEPT ![s] = IF failed THEN @ + 1 ELSE @]
               /\ pending' = [pending EXCEPT ![s] =
                                 IF failed THEN <<>> ELSE <<HistMetric(ResolvedTimes(store))>>]
        /\ pc' = [pc EXCEPT ![s] = NextPc("resolved")]
        /\ Asked(s, "resolved", res, ResolvedTimes(store))
        /\ UNCHANGED <<families, store, errors, ch, out, cancelled>>

\* Variant: when a row cannot be decoded, the rows decoded before it are sent.
GetResolvedStatsDecoded(s) ==
    \E res \in {"ok", "queryErr", "scanErr"} :
        \E numbers \in CollectRows(res, ResolvedTimes(store)) :
            /\ pc[s] = "getResolvedStats"
            /\ pending[s] = <<>>
            /\ dbres' = [dbres EXCEPT ![s]["resolved"] = res]
            /\ numErrors' = [numErrors EXCEPT ![s] = IF res = "ok" THEN @ ELSE @ + 1]
            /\ pending' = [pending EXCEPT ![s] =
                              IF res = "queryErr" THEN <<>> ELSE <<HistMetric(numbers)>>]
            /\ pc' = [pc EXCEPT ![s] = NextPc("resolved")]
            /\ Asked(s, "resolved", res, numbers)
            /\ UNCHANGED <<families, store, errors, ch, out, cancelled>>

GetResolvedStats(s) ==
    \E res \in {"ok", "queryErr", "scanErr"} :
        \E numbers \in CollectRows(res, ResolvedTimes(store)) :
            /\ FamilyStep(s, "resolved", res, <<HistMetric(numbers)>>)
            /\ Asked(s, "resolved", res, numbers)

AccountLabels == <<"unsuspended", "bots", "groups", "people", "suspended">>

GetNumAccounts(s) ==
    \E res \in {"ok", "queryErr"}, row \in AccountRows :
        /\ FamilyStep(s, "accounts", res,
                      [i \in 1..5 |-> ConstMetric("num_accounts", row[i], AccountLabels[i])])
        /\ Asked(s, "accounts", res, row)

GetNumPosts(s) ==
    \E res \in {"ok", "queryErr"}, n \in PostCounts :
        /\ FamilyStep(s, "posts", res, <<ConstMetric("num_posts", n, "")>>)
        /\ Asked(s, "posts", res, <<n>>)

\* ch <- metric: blocks while the channel is full.
Send(s) ==
    /\ pending[s] # <<>>
    /\ Len(ch[s]) < ChanCap
    /\ ch' = [ch EXCEPT ![s] = Append(@, Head(pending[s]))]
    /\ pending' = [pending EXCEPT ![s] = Tail(@)]
    /\ UNCHANGED <<families, store, errors, pc, numErrors, out, dbres, cancelled, got, queries>>

\* Variant: the tally is added to the gauge (Add for Set).
SetErrorsAdd(s) ==
    /\ pc[s] = "setErrors"
    /\ pending[s] = <<>>
    /\ errors' = errors + numErrors[s]
    /\ pc' = [pc EXCEPT ![s] = "sendErrors"]
    /\ UNCHANGED <<families, store, numErrors, pending, ch, out, dbres, cancelled, got, queries>>

\* Variant: the gauge is set only when the scrape counted a failure.
SetErrorsIfAny(s) ==
    /\ pc[s] = "setErrors"
    /\ pending[s] = <<>>
    /\ errors' = IF numErrors[s] > 0 THEN numErrors[s] ELSE errors
    /\ pc' = [pc EXCEPT ![s] = "sendErrors"]
    /\ UNCHANGED <<families, store, numErrors, pending, ch, out, dbres, cancelled, got, queries>>

\* m.errors.Set(float64(numErrors))
SetErrors(s) ==
    /\ pc[s] = "setErrors"
    /\ pending[s] = <<>>
    /\ errors' = numErrors[s]
    /\ pc' = [pc EXCEPT ![s] = "sendErrors"]
    /\ UNCHANGED <<families, store, numErrors, pending, ch, out, dbres, cancelled, got, queries>>

\* ch <- m.errors
SendErrors(s) ==
    /\ pc[s] = "sendErrors"
    /\ Len(ch[s]) < ChanCap
    /\ ch' = [ch EXCEPT ![s] = Append(@, ErrorsGauge)]
    /\ pc' = [pc EXCEPT ![s] = "done"]
    /\ UNCHANGED <<families, store, errors, numErrors, pending, out, dbres, cancelled, got, queries>>

----------------------------------------------------------------------------
(* The collection requester *)

\* The requester reads one metric from its channel and writes it out.
Consume(s) ==
    /\ ch[s] # <<>>
    /\ out' = [out EXCEPT ![s] = Append(@, Write(Head(ch[s])))]
    /\ ch' = [ch EXCEPT ![s] = Tail(@)]
    /\ UNCHANGED <<families, store, errors, pc, numErrors, pending, dbres, cancelled, got, queries>>

\* The requester signals timeout/cancellation while its scrape runs. Collect
\* hands scrape context.Background(), so nothing in scrape observes the signal.
Cancel(s) ==
    /\ Active(s)
    /\ ~cancelled[s]
    /\ cancelled' = [cancelled EXCEPT ![s] = TRUE]
    /\ UNCHANGED <<families, store, errors, pc, numErrors, pending, ch, out, dbres, got, queries>>

\* No other Collect call is in flight: each has returned and been drained.
Alone(s) == \A t \in Scrapes \ {s} : ~Active(t) /\ pending[t] = <<>> /\ ch[t] = <<>>

CollectAlone(s) == Alone(s) /\ Collect(s)

----------------------------------------------------------------------------
(* Specifications *)

ScrapeStep(s) ==
    \/ GetNumReports(s)
    \/ GetResolvedStats(s)
    \/ Send(s)
    \/ SetErrors(s)
    \/ SendErrors(s)

\* Collect calls may overlap.
Next ==
    \E s \in Scrapes :
        \/ Collect(s)
        \/ ScrapeStep(s)
        \/ Consume(s)
        \/ Cancel(s)

Spec == Init /\ [][Next]_vars

\* Collect calls come one after another.
NextSolo ==
    \E s \in Scrapes :
        \/ CollectAlone(s)
        \/ ScrapeStep(s)
        \/ Consume(s)

SpecSolo == Init /\ [][NextSolo]_vars

\* One Collect call, over every table of up to MaxObs reports.
NextHist ==
    \/ Collect("s1")
    \/ ScrapeStep("s1")
    \/ Consume("s1")

SpecHist == InitHist /\ [][NextHist]_vars

\* One Collect call on either build of scrape (two or four families); every
\* query returns and the requester keeps reading its channel.
BuildStep(s) ==
    \/ ScrapeStep(s)
    \/ GetNumAccounts(s)
    \/ GetNumPosts(s)

NextBuilds ==
    \/ Collect("s1")
    \/ BuildStep("s1")
    \/ Consume("s1")

SpecLive ==
    /\ InitBuilds
    /\ [][NextBuilds]_vars
    /\ WF_vars(BuildStep("s1"))
    /\ WF_vars(Consume("s1"))

\* Mastodon writes the reports table while the exporter runs: a report is
\* filed (a row with no action_taken_at), or an open report is resolved.
StoreWrite ==
    /\ \/ /\ Len(store) < MaxReports
          /\ store' = Append(store, OpenReport)
       \/ \E i \in DOMAIN store, d \in SmallObservations :
              /\ ~store[i].resolved
              /\ store' = [store EXCEPT ![i] = ResolvedReport(d)]
    /\ UNCHANGED <<families, errors, pc, numErrors, pending, ch, out, dbres, cancelled,
                   got, queries>>

\* One Collect call, on a table that changes under it.
NextStore ==
    \/ StoreWrite
    \/ Collect("s1")
    \/ ScrapeStep("s1")
    \/ Consume("s1")

SpecStore == Init /\ [][NextStore]_vars

\* Collect calls one after another on either build, the reports table fixed.
InitIso ==
    /\ families \in {FamiliesV2, FamiliesV4}
    /\ store \in {<<>>, <<ResolvedReport(45), OpenReport>>}
    /\ InitScrapes

NextIso ==
    \E s \in Scrapes :
        \/ CollectAlone(s)
        \/ BuildStep(s)
        \/ Consume(s)

SpecIso == InitIso /\ [][NextIso]_vars

----------------------------------------------------------------------------
(* Vocabulary of the properties *)

\* Everything scrape s has sent so far, in order: read by the requester or
\* still in its channel.
EmittedDescs(s) ==
    [i \in 1..(Len(out[s]) + Len(ch[s])) |->
        IF i <= Len(out[s]) THEN out[s][i].desc ELSE ch[s][i - Len(out[s])].desc]

\* The descs scrape s has built or sent, wherever they stand.
BuiltDescs(s) == Range(EmittedDescs(s)) \cup {pending[s][i].desc : i \in DOMAIN pending[s]}

\* The families whose query failed in scrape s.
Failed(s) == {f \in Range(families) : dbres[s][f] \in {"queryErr", "scanErr"}}

Attempted(s) == {f \in Range(families) : dbres[s][f] # "none"}

\* Collect has returned and the requester has read everything it sent.
Drained(s) == pc[s] = "done" /\ ch[s] = <<>>

\* The values the requester of s has received for the errors gauge.
DeliveredErrors(s) == {out[s][i].val : i \in {k \in DOMAIN out[s] : out[s][k].desc = "errors"}}

\* The samples of one desc the requester of s has received, in order.
RECURSIVE SelectDesc(_, _, _)
SelectDesc(seq, d, i) ==
    IF i > Len(seq) THEN <<>>
    ELSE IF seq[i].desc = d THEN <<seq[i]>> \o SelectDesc(seq, d, i + 1)
         ELSE SelectDesc(seq, d, i + 1)

Delivered(s, d) == SelectDesc(out[s], d, 1)

\* What a cumulative histogram of the observations D must hold, by counting.
LeCount(D, b) == Cardinality({i \in DOMAIN D : D[i] <= b})

RECURSIVE SumSeq(_)
SumSeq(D) == IF D = <<>> THEN 0 ELSE Head(D) + SumSeq(Tail(D))

\* Reading a bucket the way Go reads a map: a missing key reads as 0.
BucketCount(h, b) == IF b \in DOMAIN h.buckets THEN h.buckets[b] ELSE 0

HistCorrect(h, D) ==
    /\ \A b \in Range(resolutionTimeBuckets) : BucketCount(h, b) = LeCount(D, b)
    /\ h.sum = SumSeq(D)
    /\ h.count = Len(D)

\* The histogram values scrape s has built, wherever they stand.
BuiltHists(s) ==
    {m.val : m \in {x \in Range(pending[s]) \cup Range(ch[s]) : x.desc = "resolved_time_seconds"}}
    \cup {m.val : m \in {x \in Range(out[s]) : x.desc = "resolved_time_seconds"}}

----------------------------------------------------------------------------
(* C1: in a scrape run alone, the errors gauge the requester receives      *)
(* carries the number of families whose query failed in that scrape: 0     *)
(* when both queries succeed, 1 when exactly one fails, 2 when both fail.  *)

FailBit(s, f) == IF dbres[s][f] = "ok" THEN 0 ELSE 1

C1_ErrorsGaugeCountsFailures ==
    \A s \in Scrapes : \A v \in DeliveredErrors(s) :
        /\ v = FailBit(s, "reports") + FailBit(s, "resolved")
        /\ (dbres[s]["reports"] = "ok" /\ dbres[s]["resolved"] = "ok") => v = 0
        /\ (dbres[s]["reports"] # "ok" /\ dbres[s]["resolved"] # "ok") => v = 2
        /\ (dbres[s]["reports"] = "ok") # (dbres[s]["resolved"] = "ok") => v = 1

\* Two scrapes, one after the other, with different numbers of failures.
C1_Witness ==
    /\ Drained("s1") /\ DeliveredErrors("s1") = {2}
    /\ Drained("s2") /\ DeliveredErrors("s2") = {1}
    /\ dbres["s2"]["resolved"] = "scanErr"

(* C2: a family's samples are emitted if and only if its query succeeded.  *)
(* Report query failed, duration query succeeded: the requester receives   *)
(* the histogram (correct for the table) and errors = 1 and nothing else;  *)
(* the other way round: the two num_reports samples and errors = 1; both   *)
(* failed: errors = 2 alone.                                               *)

C2_FamilyEmittedIffSucceeded ==
    \A s \in Scrapes :
        /\ \A f \in Range(families) :
              /\ DescOf(f) \in BuiltDescs(s) => dbres[s][f] = "ok"
              /\ Drained(s) => (Delivered(s, DescOf(f)) # <<>> <=> dbres[s][f] = "ok")
        /\ (Drained(s) /\ dbres[s]["reports"] # "ok" /\ dbres[s]["resolved"] = "ok") =>
              /\ Len(out[s]) = 2
              /\ out[s][1].desc = "resolved_time_seconds"
              /\ HistCorrect(out[s][1].val, ResolvedTimes(store))
              /\ out[s][2] = [desc |-> "errors", label |-> "", val |-> 1]
        /\ (Drained(s) /\ dbres[s]["reports"] = "ok" /\ dbres[s]["resolved"] # "ok") =>
              out[s] = << [desc |-> "num_reports", label |-> "true", val |-> CountResolved(store)],
                          [desc |-> "num_reports", label |-> "false", val |-> CountUnresolved(store)],
                          [desc |-> "errors", label |-> "", val |-> 1] >>
        /\ (Drained(s) /\ dbres[s]["reports"] # "ok" /\ dbres[s]["resolved"] # "ok") =>
              out[s] = << [desc |-> "errors", label |-> "", val |-> 2] >>

\* Both partial failures, one in each scrape, on a table with a resolved report.
C2_Witness ==
    /\ Drained("s1") /\ dbres["s1"]["reports"] = "queryErr" /\ dbres["s1"]["resolved"] = "ok"
    /\ Drained("s2") /\ dbres["s2"]["reports"] = "ok" /\ dbres["s2"]["resolved"] = "scanErr"
    /\ CountResolved(store) > 0

(* C3: every scrape sends the errors gauge exactly once, as its last send, *)
(* and only after every family has been attempted, whatever the queries    *)
(* answered.                                                               *)

ErrorsSends(s) == {i \in DOMAIN EmittedDescs(s) : EmittedDescs(s)[i] = "errors"}

C3_ErrorsGaugeOnceAndLast ==
    \A s \in Scrapes :
        /\ pc[s] = "done" => ErrorsSends(s) = {Len(EmittedDescs(s))} /\ Len(EmittedDescs(s)) > 0
        /\ pc[s] # "done" => ErrorsSends(s) = {}
        /\ ErrorsSends(s) # {} => Attempted(s) = Range(families) /\ pending[s] = <<>>
        /\ \A i \in DOMAIN pending[s] : pending[s][i].desc # "errors"

\* One scrape with both families emitted before the gauge, one with the gauge alone.
C3_Witness ==
    /\ pc["s1"] = "done" /\ Failed("s1") = {} /\ Len(EmittedDescs("s1")) = 4
    /\ pc["s2"] = "done" /\ Failed("s2") = {"reports", "resolved"} /\ Len(EmittedDescs("s2")) = 1

(* C4: with two Collect calls overlapping, the errors value each requester *)
(* receives is the number of families that failed in its own scrape.       *)

C4_OverlapKeepsOwnCount ==
    \A s \in Scrapes : DeliveredErrors(s) \subseteq {Cardinality(Failed(s))}

(* C5: the histogram built from the resolution times D holds, for every    *)
(* configured boundary b, the number of d in D with d <= b (an observation *)
(* equal to b counts in b, and counts in every boundary above it), the sum *)
(* of D and the length of D; D = <<45, 500, 3700>> gives 1 at 60, 2 at 600 *)
(* 2 at 3600, 3 at 14400, sum 4245, count 3. A bucket is read as Go reads  *)
(* the map: a key the loop never touched reads 0.                          *)

C5_HistogramCountsByBoundary ==
    \A s \in Scrapes : \A h \in BuiltHists(s) :
        LET D == ResolvedTimes(store)
        IN  /\ \A b \in Range(resolutionTimeBuckets) :
                  BucketCount(h, b) = Cardinality({i \in DOMAIN D : D[i] <= b})
            /\ h.sum = SumSeq(D)
            /\ h.count = Len(D)
            /\ D = <<45, 500, 3700>> =>
                  /\ BucketCount(h, 60) = 1 /\ BucketCount(h, 600) = 2
                  /\ BucketCount(h, 1800) = 2 /\ BucketCount(h, 3600) = 2
                  /\ BucketCount(h, 14400) = 3 /\ BucketCount(h, 604800) = 3
                  /\ h.sum = 4245 /\ h.count = 3

\* The spec's scenario, delivered to the requester.
C5_Witness ==
    /\ ResolvedTimes(store) = <<45, 500, 3700>>
    /\ Len(Delivered("s1", "resolved_time_seconds")) = 1

(* C6: the bucket mapping handed to the histogram sample has an entry for  *)
(* each of the 9 configured boundaries, 0 where no observation is <= it.   *)

C6_EveryBoundaryKeyed ==
    \A s \in Scrapes : \A h \in BuiltHists(s) :
        DOMAIN h.buckets = Range(resolutionTimeBuckets)

(* C7: an empty result of the durations query is no error: the histogram   *)
(* has every cumulative count 0, sum 0 and count 0, the scrape sends it,   *)
(* and the tally is not incremented for the duration family.               *)

C7_EmptyResultIsAHistogram ==
    \A s \in Scrapes :
        (dbres[s]["resolved"] = "ok" /\ ResolvedTimes(store) = <<>>) =>
            /\ numErrors[s] = FailBit(s, "reports")
            /\ Cardinality(BuiltHists(s)) = 1
            /\ \A h \in BuiltHists(s) :
                  /\ \A b \in Range(resolutionTimeBuckets) : BucketCount(h, b) = 0
                  /\ h.sum = 0
                  /\ h.count = 0
            /\ Drained(s) =>
                  /\ Len(Delivered(s, "resolved_time_seconds")) = 1
                  /\ DeliveredErrors(s) = {FailBit(s, "reports")}

\* A table with reports, none resolved: the empty histogram and errors = 0 delivered.
C7_Witness ==
    /\ Len(store) > 0 /\ ResolvedTimes(store) = <<>>
    /\ Drained("s1") /\ Failed("s1") = {}
    /\ Len(Delivered("s1", "resolved_time_seconds")) = 1
    /\ DeliveredErrors("s1") = {0}

(* C8: the cumulative counts do not decrease as the boundary grows, none   *)
(* exceeds the total count, and the implicit +Inf bucket (the sample's     *)
(* count) is the number of observations.                                   *)

\* The +Inf bucket of a const histogram is its sample count.
InfBucket(h) == h.count

C8_CumulativeCountsMonotone ==
    \A s \in Scrapes : \A h \in BuiltHists(s) :
        /\ \A i, j \in DOMAIN resolutionTimeBuckets :
              i < j => BucketCount(h, resolutionTimeBuckets[i]) <= BucketCount(h, resolutionTimeBuckets[j])
        /\ \A b \in DOMAIN h.buckets : h.buckets[b] <= InfBucket(h)
        /\ InfBucket(h) = Len(ResolvedTimes(store))

\* Observations spread over the boundaries, one above them all.
C8_Witness ==
    /\ ResolvedTimes(store) = <<604801, 60, 3700>>
    /\ Len(Delivered("s1", "resolved_time_seconds")) = 1
    /\ \E h \in BuiltHists("s1") : BucketCount(h, 604800) < InfBucket(h)

(* C9: once the requester has signalled timeout/cancellation, the scrape   *)
(* builds no sample for a family it had not yet queried, and still sends   *)
(* the errors gauge.                                                       *)

C9_CancelStopsFamilies ==
    [][\A s \in Scrapes : \A f \in Range(families) :
          (cancelled[s] /\ dbres[s][f] = "none") =>
              \A i \in DOMAIN pending'[s] : pending'[s][i].desc # DescOf(f)]_vars

(* C10: every started scrape reaches Done with output produced, whatever   *)
(* the queries answered (each query returns, the requester reads): no      *)
(* query or row-decode failure ends the scrape early or skips a family.    *)

C10_ScrapeCompletes ==
    \A s \in Scrapes :
        (pc[s] # "idle") ~>
            /\ pc[s] = "done"
            /\ Attempted(s) = Range(families)
            /\ numErrors[s] = Cardinality(Failed(s))
            /\ out[s] # <<>>
            /\ out[s][Len(out[s])].desc = "errors"

\* The four-family build with every query failed, the row-decode failure included.
C10_Witness ==
    /\ families = FamiliesV4
    /\ Drained("s1")
    /\ Failed("s1") = AllFamilies
    /\ dbres["s1"]["resolved"] = "scanErr"
    /\ out["s1"] = << [desc |-> "errors", label |-> "", val |-> 4] >>

(* C11: family isolation. Of two scrapes on the same table, a family whose *)
(* own query answered the same in both (same outcome, same rows) has the   *)
(* same samples delivered in both, whatever the other families' queries    *)
(* answered; a family's samples are there exactly when its own query       *)
(* succeeded, and carry what that query returned.                          *)

\* What the samples of family f must be, from f's own query result alone.
OwnSamples(f, res, rows) ==
    IF res # "ok" THEN <<>>
    ELSE CASE f = "reports" ->
                << [desc |-> "num_reports", label |-> "true", val |-> rows[1]],
                   [desc |-> "num_reports", label |-> "false", val |-> rows[2]] >>
           [] f = "resolved" ->
                << [desc |-> "resolved_time_seconds", label |-> "",
                    val |-> resolvedMetricFromNums(rows)] >>
           [] f = "accounts" ->
                [i \in 1..5 |-> [desc |-> "num_accounts", label |-> AccountLabels[i], val |-> rows[i]]]
           [] f = "posts" ->
                << [desc |-> "num_posts", label |-> "", val |-> rows[1]] >>

C11_FamilyIsolation ==
    \A s, t \in Scrapes : \A f \in Range(families) :
        /\ (Drained(s) /\ Drained(t) /\ dbres[s][f] = dbres[t][f] /\ got[s][f] = got[t][f])
              => Delivered(s, DescOf(f)) = Delivered(t, DescOf(f))
        /\ Drained(s) => Delivered(s, DescOf(f)) = OwnSamples(f, dbres[s][f], got[s][f].rows)

\* Two scrapes of the four-family build that differ in the accounts query alone.
C11_Witness ==
    /\ families = FamiliesV4
    /\ Drained("s1") /\ Drained("s2")
    /\ Failed("s1") = {"accounts"} /\ Failed("s2") = {}
    /\ \A f \in AllFamilies \ {"accounts"} :
          /\ got["s1"][f] = got["s2"][f]
          /\ Delivered("s1", DescOf(f)) # <<>>
          /\ Delivered("s1", DescOf(f)) = Delivered("s2", DescOf(f))
    /\ CountResolved(store) > 0

(* C12: repeated scrapes are independent and read-only: no step of a       *)
(* scrape changes the reports table, and two scrapes run one after the     *)
(* other on the same table with the same query outcomes deliver the same   *)
(* samples, the errors value included.                                     *)

SameOutcomes(s, t) ==
    /\ dbres[s] = dbres[t]
    /\ \A f \in Range(families) : got[s][f].table = got[t][f].table

C12_RepeatedScrapesAgree ==
    [][/\ store' = store
       /\ \A s, t \in Scrapes :
             (Drained(s) /\ Drained(t) /\ SameOutcomes(s, t))' => out'[s] = out'[t]]_vars

\* Two scrapes, both with the report query failed, on a table with a resolved report.
C12_Witness ==
    /\ Drained("s1") /\ Drained("s2")
    /\ SameOutcomes("s1", "s2")
    /\ Failed("s1") = {"reports"}
    /\ CountResolved(store) > 0
    /\ Len(out["s1"]) = 2 /\ out["s1"] = out["s2"]

(* C13: one row of the durations result that cannot be decoded fails the   *)
(* whole duration family: no histogram is built or sent, not even from the *)
(* rows decoded before it, and the tally goes up by exactly one, as it     *)
(* does for a failed query.                                                *)

C13_BadRowFailsFamily ==
    \A s \in Scrapes :
        dbres[s]["resolved"] \in {"scanErr", "queryErr"} =>
            /\ BuiltHists(s) = {}
            /\ numErrors[s] = FailBit(s, "reports") + 1
            /\ Drained(s) =>
                  /\ Delivered(s, "resolved_time_seconds") = <<>>
                  /\ DeliveredErrors(s) = {FailBit(s, "reports") + 1}

\* Two rows decoded before the bad one; the report counts and errors = 1 delivered.
C13_Witness ==
    /\ dbres["s1"]["resolved"] = "scanErr"
    /\ Len(got["s1"]["resolved"].rows) = 2
    /\ Drained("s1")
    /\ Len(out["s1"]) = 3
    /\ DeliveredErrors("s1") = {1}

(* C14: within one scrape each family's query is issued exactly once,      *)
(* whatever it and the other queries answer: a failed query is not issued  *)
(* again, and a failure does not keep a later family's query from being    *)
(* issued.                                                                 *)

C14_EachQueryOnce ==
    \A s \in Scrapes : \A f \in AllFamilies :
        /\ queries[s][f] <= 1
        /\ queries[s][f] = 1 <=> (f \in Range(families) /\ dbres[s][f] # "none")
        /\ (pc[s] \in {"setErrors", "sendErrors", "done"} /\ f \in Range(families))
              => queries[s][f] = 1

\* Both queries failed, in both of two overlapping scrapes.
C14_Witness ==
    \A s \in Scrapes :
        /\ pc[s] = "done"
        /\ Failed(s) = {"reports", "resolved"}
        /\ queries[s]["reports"] = 1 /\ queries[s]["resolved"] = 1

(* C15: when the report-count query succeeds with (r, u), the scrape       *)
(* delivers exactly two num_reports samples, resolved="true" with value r  *)
(* and resolved="false" with value u, r and u being the numbers of         *)
(* resolved and unresolved rows of the table; (3, 0) gives true=3 and      *)
(* false=0.                                                                *)

NumReportsBuilt(s) ==
    {x \in Range(pending[s]) \cup Range(ch[s]) : x.desc = "num_reports"}

C15_TwoReportCountSamples ==
    \A s \in Scrapes :
        dbres[s]["reports"] = "ok" =>
            LET r == got[s]["reports"].rows[1]
                u == got[s]["reports"].rows[2]
            IN  /\ r = Cardinality({i \in DOMAIN store : store[i].resolved})
                /\ u = Len(store) - r
                /\ \A x \in NumReportsBuilt(s) :
                      \/ x.label = "true" /\ x.val = r
                      \/ x.label = "false" /\ x.val = u
                /\ Drained(s) =>
                      Delivered(s, "num_reports") =
                          << [desc |-> "num_reports", label |-> "true", val |-> r],
                             [desc |-> "num_reports", label |-> "false", val |-> u] >>
                /\ (Drained(s) /\ CountResolved(store) = 3 /\ CountUnresolved(store) = 0) =>
                      /\ Delivered(s, "num_reports")[1].label = "true"
                      /\ Delivered(s, "num_reports")[1].val = 3
                      /\ Delivered(s, "num_reports")[2].label = "false"
                      /\ Delivered(s, "num_reports")[2].val = 0

\* The spec's scenario: three reports, all resolved.
C15_Witness ==
    /\ CountResolved(store) = 3 /\ CountUnresolved(store) = 0
    /\ Drained("s1")
    /\ Len(Delivered("s1", "num_reports")) = 2

(* C16: the errors gauge is a per-scrape value, not a running total: of    *)
(* two scrapes run one after the other on the same exporter, the second    *)
(* reports the number of families that failed in it alone; after a scrape  *)
(* with failures, a scrape with none reports 0.                            *)

\* The errors gauge scrape s has sent is still in its requester's channel.
GaugeInFlight(s) == \E i \in DOMAIN ch[s] : ch[s][i].kind = "live"

C16_GaugeIsPerScrape ==
    \A s \in Scrapes :
        /\ GaugeInFlight(s) => errors = Cardinality(Failed(s))
        /\ Drained(s) => DeliveredErrors(s) = {Cardinality(Failed(s))}
        /\ (Drained(s) /\ Failed(s) = {}) => DeliveredErrors(s) = {0}

\* s1 has delivered errors = 2; s2, started after it, has set the gauge to 0
\* and sent it.
C16_Witness ==
    /\ Drained("s1") /\ DeliveredErrors("s1") = {2}
    /\ pc["s2"] = "done" /\ Failed("s2") = {}
    /\ GaugeInFlight("s2")
    /\ errors = 0

(* C17: every sample a Collect call emits belongs to a metric family that  *)
(* Describe announces, and Describe announces the same fixed identities    *)
(* (num_reports, resolved_time_seconds, errors) whatever scrapes have run. *)
C17_CollectWithinDescribe ==
    /\ Range(Describe(families)) = {"num_reports", "resolved_time_seconds", "errors"}
    /\ Len(Describe(families)) = 3
    /\ \A s \in Scrapes : BuiltDescs(s) \subseteq Range(Describe(families))

\* One scrape has delivered samples of all three families while the other
\* failed both queries and delivered the gauge alone.
C17_Witness ==
    /\ Drained("s1") /\ Drained("s2")
    /\ Range(EmittedDescs("s1")) = {"num_reports", "resolved_time_seconds", "errors"}
    /\ Range(EmittedDescs("s2")) = {"errors"}

(* C18: in a scrape in which both queries succeed and the reports table is *)
(* not modified between the two queries, the histogram's total count       *)
(* equals the value of num_reports{resolved="true"}, and the two           *)
(* num_reports values sum to the number of report records.                 *)

\* Both queries of scrape s were answered, from the same table.
SameTable(s) ==
    /\ dbres[s]["reports"] = "ok" /\ dbres[s]["resolved"] = "ok"
    /\ got[s]["reports"].table = got[s]["resolved"].table

C18_CountsAgreeOnOneTable ==
    \A s \in Scrapes :
        (Drained(s) /\ SameTable(s)) =>
            /\ Len(Delivered(s, "num_reports")) = 2
            /\ Len(Delivered(s, "resolved_time_seconds")) = 1
            /\ Delivered(s, "resolved_time_seconds")[1].val.count
                   = Delivered(s, "num_reports")[1].val
            /\ Delivered(s, "num_reports")[1].val + Delivered(s, "num_reports")[2].val
                   = Len(got[s]["reports"].table)

\* The table was written before and after the scrape's two queries but not
\* between them; it held a resolved and an open report when they ran.
C18_Witness ==
    /\ Drained("s1") /\ SameTable("s1")
    /\ Len(got["s1"]["reports"].table) = 2
    /\ Delivered("s1", "num_reports")[1].val = 1
    /\ Delivered("s1", "num_reports")[2].val = 1
    /\ store # got["s1"]["reports"].table

====
